---- MODULE Spec2Model ----
(***************************************************************************)
(* A model of xcode_assistant.py: the detector, the fix synthesizer, the   *)
(* applier (apply_fix) and the flows of main().                            *)
(*                                                                         *)
(* Text is a sequence of lexemes (tokens).  A token is an indivisible      *)
(* piece of text: a word, a run of blanks, a punctuation character or the  *)
(* line break.  Python's str and re operations are modelled on token       *)
(* sequences: a literal of a pattern is a sequence of tokens, a character  *)
(* class holds or does not hold of a whole token.  The lines of the model  *)
(* are written so that no literal of a pattern occurs inside a longer      *)
(* word, so a match never starts or ends inside a token.  The project      *)
(* holds one Swift file, so the 'file' field of the issue and fix records  *)
(* is left out.                                                            *)
(***************************************************************************)
EXTENDS Integers, Sequences, FiniteSets, TLC

VARIABLES content, issues, pc, result, fixes, idx, prev, applied

vars == <<content, issues, pc, result, fixes, idx, prev, applied>>

(***************************************************************************)
(* Bounds of the model.                                                    *)
(***************************************************************************)
MaxLines == 2

(***************************************************************************)
(* Tokens and the character classes of re.                                 *)
(***************************************************************************)
NL == "\n"
BS == "\\"
QUOTE == "\""
SP == " "
INDENT == "    "

\* \s, and what str.strip() removes
IsSpace(t) == t \in {SP, INDENT, NL}

\* \d
IsDigit(t) == t \in {"12", "20"}

\* \w
IsWord(t) ==
  \/ IsDigit(t)
  \/ t \in {"VStack", "spacing", "Spacer", "frame", "height", "Text", "let",
            "computed_value", "c", "a", "b", "r", "d", "u", "x", "track",
            "asset", "AVAsset", "AVURLAsset", "url", "duration", "tracks",
            "withMediaType", "nominalFrameRate", "naturalSize", "copyCGImage",
            "at", "actualTime", "init", "load", "loadTracks", "try", "await",
            "generateCGImageAsynchronously", "for", "cgImage", "error", "in",
            "class", "Foo", "Bar", "Base", "Task", "async", "Sendable", "end"}

ClassHas(cls, t) ==
  CASE cls = "any" -> t # NL
    [] cls = "s" -> IsSpace(t)
    [] cls = "w" -> IsWord(t)
    [] cls = "d" -> IsDigit(t)

(***************************************************************************)
(* Regular expressions: a sequence of atoms, each a literal token or a     *)
(* class with a quantifier ("1", "*", "+" greedy; "+?" lazy).  A group is  *)
(* a range of atoms <<first, last>>.                                       *)
(***************************************************************************)
Lit(t) == [t |-> "lit", v |-> t, q |-> "1"]
Cls(c, q) == [t |-> "cls", v |-> c, q |-> q]
Lits(s) == [i \in 1..Len(s) |-> Lit(s[i])]

AtomHas(atom, tok) == IF atom.t = "lit" THEN tok = atom.v ELSE ClassHas(atom.v, tok)

SetMax(S) == CHOOSE m \in S : \A n \in S : n <= m
SetMin(S) == CHOOSE m \in S : \A n \in S : m <= n

\* the longest run of tokens from pos that the atom accepts
RunLen(atom, s, pos) ==
  SetMin({n \in 0..(Len(s) + 1 - pos) : pos + n > Len(s) \/ ~AtomHas(atom, s[pos + n])})

\* the counts of tokens atom k may take at pos: least and most
Lo(atom) == IF atom.q \in {"1", "+", "+?"} THEN 1 ELSE 0
Hi(atom, s, pos) ==
  IF atom.q = "1" THEN (IF pos <= Len(s) /\ AtomHas(atom, s[pos]) THEN 1 ELSE 0)
  ELSE RunLen(atom, s, pos)

\* whether atoms k.. of re match s from pos (backtracking over the counts)
RECURSIVE Matches(_, _, _, _)
Matches(re, s, k, pos) ==
  \/ k > Len(re)
  \/ \E n \in Lo(re[k])..Hi(re[k], s, pos) : Matches(re, s, k + 1, pos + n)

\* The positions after each atom k.. in the match the backtracking matcher
\* finds first: a greedy atom takes the most tokens that let the rest match,
\* a lazy one the fewest.
RECURSIVE MatchEnds(_, _, _, _)
MatchEnds(re, s, k, pos) ==
  IF k > Len(re) THEN <<>>
  ELSE LET good == {n \in Lo(re[k])..Hi(re[k], s, pos) : Matches(re, s, k + 1, pos + n)}
           n == IF re[k].q = "+?" THEN SetMin(good) ELSE SetMax(good)
       IN <<pos + n>> \o MatchEnds(re, s, k + 1, pos + n)

NoMatch == [ok |-> FALSE, start |-> 0, ends |-> <<>>]

\* re.match at position pos
MatchFrom(re, s, pos) ==
  IF Matches(re, s, 1, pos)
  THEN [ok |-> TRUE, start |-> pos, ends |-> MatchEnds(re, s, 1, pos)]
  ELSE NoMatch

\* re.search from position from: the leftmost match
re_search_from(re, s, from) ==
  LET starts == {p \in from..(Len(s) + 1) : Matches(re, s, 1, p)}
  IN IF starts = {} THEN NoMatch ELSE MatchFrom(re, s, SetMin(starts))

re_search(re, s) == re_search_from(re, s, 1)

\* position after the match
MatchEnd(m) == IF m.ends = <<>> THEN m.start ELSE m.ends[Len(m.ends)]

\* match.group(0) and match.group(g) for the group of atoms grp = <<first, last>>
Group0(m, s) == SubSeq(s, m.start, MatchEnd(m) - 1)
Group(m, s, grp) ==
  LET from == IF grp[1] = 1 THEN m.start ELSE m.ends[grp[1] - 1]
  IN SubSeq(s, from, m.ends[grp[2]] - 1)

\* re.finditer: the non-overlapping matches, left to right
RECURSIVE re_finditer_from(_, _, _)
re_finditer_from(re, s, from) ==
  LET m == re_search_from(re, s, from)
  IN IF ~m.ok THEN <<>>
     ELSE <<m>> \o re_finditer_from(re, s, IF MatchEnd(m) > m.start THEN MatchEnd(m) ELSE m.start + 1)

re_finditer(re, s) == re_finditer_from(re, s, 1)

\* a replacement template: tokens and group references
TLit(t) == [g |-> 0, v |-> t]
TGrp(g) == [g |-> g, v |-> ""]
TLits(s) == [i \in 1..Len(s) |-> TLit(s[i])]

RECURSIVE Expand(_, _, _, _)
Expand(tpl, m, s, groups) ==
  IF tpl = <<>> THEN <<>>
  ELSE (IF tpl[1].g = 0 THEN <<tpl[1].v>> ELSE Group(m, s, groups[tpl[1].g]))
       \o Expand(Tail(tpl), m, s, groups)

\* re.sub: every non-overlapping match replaced by the expanded template
RECURSIVE re_sub_from(_, _, _, _, _)
re_sub_from(re, groups, tpl, s, from) ==
  LET m == re_search_from(re, s, from)
  IN IF ~m.ok THEN SubSeq(s, from, Len(s))
     ELSE SubSeq(s, from, m.start - 1) \o Expand(tpl, m, s, groups)
          \o re_sub_from(re, groups, tpl, s, MatchEnd(m))

re_sub(re, groups, tpl, s) == re_sub_from(re, groups, tpl, s, 1)

(***************************************************************************)
(* Python's str and file operations.                                       *)
(***************************************************************************)
\* needle in s
Occurs(needle, s, p) ==
  /\ p + Len(needle) - 1 <= Len(s)
  /\ \A j \in 1..Len(needle) : s[p + j - 1] = needle[j]

str_in(needle, s) == \E p \in 1..(Len(s) + 1) : Occurs(needle, s, p)

\* s.replace(old, new), old not empty
RECURSIVE str_replace(_, _, _)
str_replace(s, old, new) ==
  LET at == {p \in 1..Len(s) : Occurs(old, s, p)}
  IN IF at = {} THEN s
     ELSE LET p == SetMin(at)
          IN SubSeq(s, 1, p - 1) \o new \o str_replace(SubSeq(s, p + Len(old), Len(s)), old, new)

\* s.strip()
str_strip(s) ==
  LET keep == {p \in 1..Len(s) : ~IsSpace(s[p])}
  IN IF keep = {} THEN <<>> ELSE SubSeq(s, SetMin(keep), SetMax(keep))

\* s[:upto].count('\n'), upto a position of s
count_nl(s, upto) == Cardinality({p \in 1..(upto - 1) : s[p] = NL})

\* f.readlines(): the lines, each with its line break (the last may lack it)
RECURSIVE readlines(_)
readlines(c) ==
  IF c = <<>> THEN <<>>
  ELSE LET nls == {p \in 1..Len(c) : c[p] = NL}
       IN IF nls = {} THEN <<c>>
          ELSE <<SubSeq(c, 1, SetMin(nls))>> \o readlines(SubSeq(c, SetMin(nls) + 1, Len(c)))

\* content.splitlines(): the lines without their line breaks
splitlines(c) ==
  LET ls == readlines(c)
  IN [i \in 1..Len(ls) |->
        IF ls[i][Len(ls[i])] = NL THEN SubSeq(ls[i], 1, Len(ls[i]) - 1) ELSE ls[i]]

\* f.writelines(lines)
RECURSIVE writelines(_)
writelines(ls) == IF ls = <<>> THEN <<>> ELSE ls[1] \o writelines(Tail(ls))

\* lines[i] of Python, i counted from 0, a negative i from the end
py_index_ok(ls, i) == -Len(ls) <= i /\ i < Len(ls)
py_at(ls, i) == IF i >= 0 THEN ls[i + 1] ELSE ls[Len(ls) + i + 1]

(***************************************************************************)
(* The detector.  An issue is [line, type, message, suggestion]; message   *)
(* and suggestion are token sequences.                                     *)
(***************************************************************************)
vstack_pattern == Lits(<<"VStack", "(", "spacing", ":">>) \o <<Cls("any", "*"), Lit(")")>>

text_interp_pattern ==
  Lits(<<"Text", "(", QUOTE>>)
  \o <<Cls("any", "*"), Lit(BS), Lit("("), Cls("any", "*"), Lit("?"), Cls("any", "*"),
       Lit(":"), Cls("any", "*"), Lit(")"), Cls("any", "*"), Lit(QUOTE), Lit(")")>>

VStackMessage == <<"Potential buildExpression issue with VStack spacing parameter">>
VStackSuggestion == <<"Replace with VStack {} and explicit Spacer().frame(height: X) elements">>
TextMessage == <<"Potential buildExpression issue with conditional expression in Text interpolation">>
TextSuggestion == <<"Extract the conditional expression to a separate variable before using in Text">>

\* one issue per match of re in content, at the line the match starts in
IssuesOf(ms, c, type, msg, sugg) ==
  [i \in 1..Len(ms) |->
     [line |-> count_nl(c, ms[i].start) + 1, type |-> type,
      message |-> msg, suggestion |-> sugg]]

check_build_expression(c) ==
  IssuesOf(re_finditer(vstack_pattern, c), c, "buildExpression", VStackMessage, VStackSuggestion)
  \o IssuesOf(re_finditer(text_interp_pattern, c), c, "buildExpression", TextMessage, TextSuggestion)

\* the detection table: pattern and the name of the modern replacement
deprecated_apis ==
  << [pattern |-> Lits(<<"AVAsset", "(", "url", ":">>), replacement |-> "AVURLAsset(url:"],
     [pattern |-> Lits(<<".", "duration">>) \o <<Cls("s", "1")>>, replacement |-> "asset.load(.duration)"],
     [pattern |-> Lits(<<".", "tracks", "(", "withMediaType", ":">>),
      replacement |-> "asset.loadTracks(withMediaType:"],
     [pattern |-> Lits(<<".", "nominalFrameRate">>), replacement |-> "videoTrack.load(.nominalFrameRate)"],
     [pattern |-> Lits(<<".", "naturalSize">>), replacement |-> "videoTrack.load(.naturalSize)"],
     [pattern |-> Lits(<<"copyCGImage", "(", "at", ":">>), replacement |-> "generateCGImageAsynchronously(for:"],
     [pattern |-> Lits(<<"init", "(", "url", ":", ")">>), replacement |-> "AVURLAsset(url:)"] >>

\* the issues of rule r: one per match, its message holding the matched text
DeprecatedIssuesOf(r, c) ==
  LET ms == re_finditer(deprecated_apis[r].pattern, c)
  IN [i \in 1..Len(ms) |->
        [line |-> count_nl(c, ms[i].start) + 1, type |-> "deprecated_api",
         message |-> <<"Potential deprecated API usage: ">> \o Group0(ms[i], c),
         suggestion |-> <<"Consider using ", deprecated_apis[r].replacement, " instead">>]]

RECURSIVE DeprecatedFrom(_, _)
DeprecatedFrom(r, c) ==
  IF r > Len(deprecated_apis) THEN <<>>
  ELSE DeprecatedIssuesOf(r, c) \o DeprecatedFrom(r + 1, c)

\* a detector in which the first matching pattern wins per line
RECURSIVE FirstPerLine(_, _)
FirstPerLine(iss, seen) ==
  IF iss = <<>> THEN <<>>
  ELSE IF iss[1].line \in seen THEN FirstPerLine(Tail(iss), seen)
  ELSE <<iss[1]>> \o FirstPerLine(Tail(iss), seen \cup {iss[1].line})

check_deprecated_apis_first_match(c) == FirstPerLine(DeprecatedFrom(1, c), {})

check_deprecated_apis(c) == DeprecatedFrom(1, c)

class_pattern == <<Lit("class"), Cls("s", "+"), Cls("w", "+")>>
ClassNameGroup == <<3, 3>>
UncheckedSendable == <<"@unchecked", SP, "Sendable">>

\* whole-file conditions: an async keyword somewhere, no annotation anywhere
AsyncContext(c) == str_in(<<"Task">>, c) \/ str_in(<<"async">>, c)
Annotated(c) == str_in(<<":", SP, "Sendable">>, c) \/ str_in(UncheckedSendable, c)

\* a check scoped to the class: its own line lacks the annotation
check_sendable_conformance_per_class(c) ==
  LET ms == re_finditer(class_pattern, c)
      flagged == [i \in 1..Len(ms) |->
                    [line |-> count_nl(c, ms[i].start) + 1, type |-> "sendable_conformance",
                     message |-> <<"Class ">> \o Group(ms[i], c, ClassNameGroup)
                                 \o <<" might need Sendable conformance for use in async contexts">>,
                     suggestion |-> <<"Add \": @unchecked Sendable\" to class definition or make class thread-safe">>]]
      Bare(i) == ~Annotated(readlines(c)[i.line])
  IN IF AsyncContext(c) THEN SelectSeq(flagged, Bare) ELSE <<>>

check_sendable_conformance(c) ==
  LET ms == re_finditer(class_pattern, c)
  IN IF AsyncContext(c) /\ ~Annotated(c)
     THEN [i \in 1..Len(ms) |->
             [line |-> count_nl(c, ms[i].start) + 1, type |-> "sendable_conformance",
              message |-> <<"Class ">> \o Group(ms[i], c, ClassNameGroup)
                          \o <<" might need Sendable conformance for use in async contexts">>,
              suggestion |-> <<"Add \": @unchecked Sendable\" to class definition or make class thread-safe">>]]
     ELSE <<>>

analyze_file(c) ==
  check_build_expression(c) \o check_deprecated_apis(c) \o check_sendable_conformance(c)

(***************************************************************************)
(* The fix synthesizer.  A fix is [kind, line, original, has, replacement, *)
(* message]: kind "fix" is a dict ('replacement' present when has), kind   *)
(* "IndexError" the exception lines[line_num] raises.                      *)
(***************************************************************************)
FixRecord(line, original, replacement, message) ==
  [kind |-> "fix", line |-> line, original |-> original, has |-> TRUE,
   replacement |-> replacement, message |-> message]

ManualFix(line, original, message) ==
  [kind |-> "fix", line |-> line, original |-> original, has |-> FALSE,
   replacement |-> <<>>, message |-> message]

Raised(what) ==
  [kind |-> what, line |-> 0, original |-> <<>>, has |-> FALSE,
   replacement |-> <<>>, message |-> <<>>]

\* re.match(r'^\s*', line).group(0)
LeadingSpace(line) == Group0(MatchFrom(<<Cls("s", "*")>>, line, 1), line)

spacing_pattern == <<Lit("spacing"), Lit(":"), Cls("s", "*"), Cls("d", "+")>>
DefaultSpacing == <<"20">>

\* new_line.strip() of the VStack branch
VStackReplacement(line) ==
  LET spacing_match == re_search(spacing_pattern, line)
      spacing == IF spacing_match.ok THEN Group(spacing_match, line, <<4, 4>>) ELSE DefaultSpacing
      indent == LeadingSpace(line)
      new_line == indent \o <<"VStack", SP, "{", NL>>
                  \o indent \o <<INDENT, "Spacer", "(", ")", ".", "frame", "(", "height", ":", SP>>
                  \o spacing \o <<")", NL>>
  IN [replacement |-> str_strip(new_line),
      message |-> <<"Replace VStack(spacing: ">> \o spacing \o <<") with VStack and explicit Spacer">>]

\* r'\\((.+?\?.+?:.+?)\\)': group 1 is the atoms 2..7
conditional_pattern ==
  <<Lit(BS), Cls("any", "+?"), Lit("?"), Cls("any", "+?"), Lit(":"), Cls("any", "+?"), Lit(BS)>>
ConditionalGroup == <<2, 7>>
var_name == <<"computed_value">>

\* new_lines.strip() of the Text branch, m the conditional match
TextReplacement(line, m) ==
  LET conditional_expr == Group(m, line, ConditionalGroup)
      indent == LeadingSpace(line)
      modified_text == str_replace(line, <<BS, "(">> \o conditional_expr \o <<")">>,
                                   <<BS, "(">> \o var_name \o <<")">>)
      new_lines == indent \o <<"let", SP>> \o var_name \o <<SP, "=", SP>> \o conditional_expr
                   \o <<NL>> \o modified_text
  IN str_strip(new_lines)

fix_build_expression(issue, c) ==
  LET lines == readlines(c)
      line_num == issue.line - 1
  IN IF ~py_index_ok(lines, line_num) THEN Raised("IndexError")
     ELSE LET line == py_at(lines, line_num)
              m == re_search(conditional_pattern, line)
          IN IF str_in(<<"VStack", "(", "spacing", ":">>, line)
             THEN FixRecord(line_num + 1, str_strip(line), VStackReplacement(line).replacement,
                            VStackReplacement(line).message)
             ELSE IF str_in(<<"Text", "(">>, line) /\ str_in(<<BS, "(">>, line)
                     /\ str_in(<<"?">>, line) /\ m.ok
             THEN FixRecord(line_num + 1, str_strip(line), TextReplacement(line, m),
                            <<"Extract conditional expression to a variable before using in Text">>)
             ELSE ManualFix(line_num + 1, str_strip(line),
                            <<"Manual fix required for this buildExpression issue">>)

\* the fix table: pattern, its groups, and the replacement template
TryAwait == <<"try", SP, "await", SP>>

api_replacements ==
  << [pattern |-> Lits(<<"AVAsset", "(", "url", ":", SP>>) \o <<Cls("any", "+?"), Lit(")")>>,
      groups |-> << <<6, 6>> >>,
      template |-> TLits(<<"AVURLAsset", "(", "url", ":", SP>>) \o <<TGrp(1), TLit(")")>>],
     [pattern |-> <<Cls("w", "+")>> \o Lits(<<".", "duration">>),
      groups |-> << <<1, 1>> >>,
      template |-> TLits(TryAwait) \o <<TGrp(1)>> \o TLits(<<".", "load", "(", ".", "duration", ")">>)],
     [pattern |-> <<Cls("w", "+")>> \o Lits(<<".", "tracks", "(", "withMediaType", ":", SP>>)
                  \o <<Cls("any", "+?"), Lit(")")>>,
      groups |-> << <<1, 1>>, <<8, 8>> >>,
      template |-> TLits(TryAwait) \o <<TGrp(1)>>
                   \o TLits(<<".", "loadTracks", "(", "withMediaType", ":", SP>>) \o <<TGrp(2), TLit(")")>>],
     [pattern |-> <<Cls("w", "+")>> \o Lits(<<".", "nominalFrameRate">>),
      groups |-> << <<1, 1>> >>,
      template |-> TLits(TryAwait) \o <<TGrp(1)>>
                   \o TLits(<<".", "load", "(", ".", "nominalFrameRate", ")">>)],
     [pattern |-> <<Cls("w", "+")>> \o Lits(<<".", "naturalSize">>),
      groups |-> << <<1, 1>> >>,
      template |-> TLits(TryAwait) \o <<TGrp(1)>> \o TLits(<<".", "load", "(", ".", "naturalSize", ")">>)],
     [pattern |-> <<Cls("w", "+")>> \o Lits(<<".", "copyCGImage", "(", "at", ":", SP>>)
                  \o <<Cls("any", "+?")>> \o Lits(<<",", SP, "actualTime", ":", SP>>)
                  \o <<Cls("any", "+?"), Lit(")")>>,
      groups |-> << <<1, 1>>, <<8, 8>>, <<14, 14>> >>,
      template |-> <<TGrp(1)>> \o TLits(<<".", "generateCGImageAsynchronously", "(", "for", ":", SP>>)
                   \o <<TGrp(2)>>
                   \o TLits(<<")", SP, "{", SP, "cgImage", ",", SP, "actualTime", ",", SP,
                              "error", SP, "in">>)] >>

\* the rules of the fix table that match the line
MatchingReplacements(line) ==
  {r \in 1..Len(api_replacements) : re_search(api_replacements[r].pattern, line).ok}

fix_deprecated_api(issue, c) ==
  LET lines == splitlines(c)
      line_num == issue.line - 1
  IN IF ~py_index_ok(lines, line_num) THEN Raised("IndexError")
     ELSE LET line == py_at(lines, line_num)
              hits == MatchingReplacements(line)
          IN IF hits # {}
             THEN LET r == api_replacements[SetMin(hits)]
                      new_line == re_sub(r.pattern, r.groups, r.template, line)
                  IN FixRecord(line_num + 1, str_strip(line), str_strip(new_line),
                               <<"Replace deprecated API with modern equivalent">>)
             ELSE ManualFix(line_num + 1, str_strip(line),
                            <<"Manual fix required for this deprecated API">>)

fix_sendable_conformance(issue, c) ==
  LET lines == readlines(c)
      line_num == issue.line - 1
  IN IF ~py_index_ok(lines, line_num) THEN Raised("IndexError")
     ELSE LET line == py_at(lines, line_num)
              class_match == re_search(class_pattern, line)
              class_name == Group(class_match, line, ClassNameGroup)
              new_line == IF str_in(<<":">>, line)
                          THEN str_replace(line, <<":">>, <<":", SP>> \o UncheckedSendable \o <<",">>)
                          ELSE str_replace(line, class_name, class_name \o <<":", SP>> \o UncheckedSendable)
          IN IF class_match.ok
             THEN FixRecord(line_num + 1, str_strip(line), str_strip(new_line),
                            <<"Add @unchecked Sendable conformance to ">> \o class_name)
             ELSE ManualFix(line_num + 1, str_strip(line),
                            <<"Manual fix required for Sendable conformance">>)

generate_fix(issue, c) ==
  IF issue.type = "buildExpression" THEN fix_build_expression(issue, c)
  ELSE IF issue.type = "deprecated_api" THEN fix_deprecated_api(issue, c)
  ELSE IF issue.type = "sendable_conformance" THEN fix_sendable_conformance(issue, c)
  ELSE Raised("No automatic fix available for issue type")

\* suggest_fixes(issue_index), issue_index an integer: the value returned (or
\* the exception raised) and whether a file was opened
InvalidIndex == Raised("Invalid issue index")

\* the guard without its lower bound: a negative index counts from the end
suggest_fixes_no_lower_bound(iss, issue_index, c) ==
  IF issue_index < Len(iss)
  THEN [out |-> IF py_index_ok(iss, issue_index)
                THEN generate_fix(py_at(iss, issue_index), c) ELSE Raised("IndexError"),
        opened |-> py_index_ok(iss, issue_index)]
  ELSE [out |-> InvalidIndex, opened |-> FALSE]

suggest_fixes(iss, issue_index, c) ==
  IF 0 <= issue_index /\ issue_index < Len(iss)
  THEN [out |-> generate_fix(iss[issue_index + 1], c), opened |-> TRUE]
  ELSE [out |-> InvalidIndex, opened |-> FALSE]

\* suggest_fixes(): the fixes of all the issues, in order; the first exception
\* ends the call
RECURSIVE AllFixes(_, _)
AllFixes(iss, c) ==
  IF iss = <<>> THEN <<>> ELSE <<generate_fix(iss[1], c)>> \o AllFixes(Tail(iss), c)

suggest_all_raises(iss, c) == \E i \in 1..Len(iss) : generate_fix(iss[i], c).kind # "fix"

(***************************************************************************)
(* The applier: the content written and the status returned (or the        *)
(* exception raised, before anything is written).                          *)
(***************************************************************************)
\* the replacement written without its line break
apply_fix_no_newline(fix, c) ==
  LET lines == readlines(c)
      line_num == fix.line - 1
  IN IF ~fix.has THEN [content |-> c, status |-> "No automatic fix available"]
     ELSE IF ~py_index_ok(lines, line_num) THEN [content |-> c, status |-> "IndexError"]
     ELSE [content |-> writelines([i \in 1..Len(lines) |->
                                     IF i = line_num + 1 THEN fix.replacement ELSE lines[i]]),
           status |-> "Applied fix"]

\* a line number past the end written to the last line
apply_fix_clamped(fix, c) ==
  LET lines == readlines(c)
      line_num == IF fix.line > Len(lines) THEN Len(lines) - 1 ELSE fix.line - 1
  IN IF ~fix.has THEN [content |-> c, status |-> "No automatic fix available"]
     ELSE IF ~py_index_ok(lines, line_num) THEN [content |-> c, status |-> "IndexError"]
     ELSE [content |-> writelines([i \in 1..Len(lines) |->
                                     IF i = line_num + 1 THEN fix.replacement \o <<NL>>
                                     ELSE lines[i]]),
           status |-> "Applied fix"]

apply_fix(fix, c) ==
  LET lines == readlines(c)
      line_num == fix.line - 1
  IN IF ~fix.has THEN [content |-> c, status |-> "No automatic fix available"]
     ELSE IF ~py_index_ok(lines, line_num) THEN [content |-> c, status |-> "IndexError"]
     ELSE [content |-> writelines([i \in 1..Len(lines) |->
                                     IF i = (IF line_num >= 0 THEN line_num + 1
                                             ELSE Len(lines) + line_num + 1)
                                     THEN fix.replacement \o <<NL>> ELSE lines[i]]),
           status |-> "Applied fix"]

(***************************************************************************)
(* The files of the model: up to MaxLines lines drawn from a pool of       *)
(* Swift lines, the last line with or without its line break.              *)
(***************************************************************************)
VStackLine == <<INDENT, "VStack", "(", "spacing", ":", SP, "12", ")", SP, "{">>
TextLine ==
  <<"Text", "(", QUOTE, BS, "(", "c", SP, "?", SP, "a", SP, ":", SP, "b", ")", QUOTE, ")">>
TwoInterpolationsLine ==
  <<"Text", "(", QUOTE, BS, "(", "c", SP, "?", SP, "a", SP, ":", SP, "b", ")", SP,
    BS, "(", "x", ")", QUOTE, ")">>
FrameRateLine == <<"let", SP, "r", SP, "=", SP, "track", ".", "nominalFrameRate">>
DurationLine == <<"let", SP, "d", SP, "=", SP, "asset", ".", "duration">>
AssetLine ==
  <<"AVAsset", "(", "url", ":", SP, "u", ")", ".", "naturalSize", SP, "x", ".", "naturalSize">>
FooLine == <<"class", SP, "Foo", SP, "{">>
BarLine == <<"class", SP, "Bar", ":", SP, "Base", SP, "{", SP, "Task">>
PlainLine == <<"end">>

Pool == {VStackLine, TextLine, TwoInterpolationsLine, FrameRateLine, DurationLine, AssetLine, FooLine, BarLine,
         PlainLine}

RECURSIVE FileOf(_, _)
FileOf(ls, nl) ==
  IF ls = <<>> THEN <<>>
  ELSE IF Len(ls) = 1 THEN ls[1] \o (IF nl THEN <<NL>> ELSE <<>>)
  ELSE ls[1] \o <<NL>> \o FileOf(Tail(ls), nl)

Files ==
  {FileOf(ls, nl) : ls \in UNION {[1..n -> Pool] : n \in 0..MaxLines}, nl \in BOOLEAN}

\* the fix records a caller may hand to apply_fix: replacements of 1, 2 and 3
\* physical lines, or none
Replacements == {<<>>, <<"x">>, <<"x", NL, "end">>, <<"x", NL, NL, "end">>}

ArbitraryFixes ==
  {FixRecord(n, <<>>, r, <<>>) : n \in 1..(MaxLines + 1), r \in Replacements}
  \cup {ManualFix(n, <<>>, <<>>) : n \in 1..(MaxLines + 1)}

NoIssue == [line |-> 0, type |-> "none", message |-> <<>>, suggestion |-> <<>>]
NoResult == [call |-> "none", out |-> Raised("none"), opened |-> FALSE, index |-> 0]
NoApply == [fix |-> Raised("none"), status |-> "none", via |-> "none", issue |-> NoIssue]

(***************************************************************************)
(* The state machine: one run of main() on one project, with --fix i or    *)
(* with --fix-all, or one call of apply_fix by a caller of the class.      *)
(* prev and applied record the last call of apply_fix: the content it      *)
(* read, the fix, the issue the fix was synthesized for, the flow it ran   *)
(* in and how it ended.                                                    *)
(***************************************************************************)
Init ==
  /\ content \in Files
  /\ issues = <<>>
  /\ pc = "start"
  /\ result = NoResult
  /\ fixes = <<>>
  /\ idx = 0
  /\ prev = <<>>
  /\ applied = NoApply

DoApply(fix, via, issue) ==
  LET r == apply_fix(fix, content)
  IN /\ content' = r.content
     /\ prev' = content
     /\ applied' = [fix |-> fix, status |-> r.status, via |-> via, issue |-> issue]

\* assistant.analyze_project()
AnalyzeProject ==
  /\ pc = "start"
  /\ issues' = issues \o analyze_file(content)
  /\ pc' = "analyzed"
  /\ UNCHANGED <<content, result, fixes, idx, prev, applied>>

\* --fix i: assistant.suggest_fixes(args.fix); the invalid-index string is
\* printed, an exception ends the run
SuggestOne(i) ==
  /\ pc \in {"analyzed", "edited"}
  /\ LET r == suggest_fixes(issues, i, content)
     IN /\ result' = [call |-> "one", out |-> r.out, opened |-> r.opened, index |-> i]
        /\ pc' = IF r.out.kind = "fix" THEN "confirm" ELSE "done"
  /\ UNCHANGED <<content, issues, fixes, idx, prev, applied>>

\* "Apply this fix? (y/n)"
ConfirmOne(answer) ==
  /\ pc = "confirm"
  /\ pc' = "done"
  /\ IF answer = "y"
     THEN DoApply(result.out, "fix", issues[result.index + 1])
     ELSE UNCHANGED <<content, prev, applied>>
  /\ UNCHANGED <<issues, result, fixes, idx>>

\* --fix-all: fixes = assistant.suggest_fixes()
SuggestAll ==
  /\ pc \in {"analyzed", "edited"}
  /\ IF suggest_all_raises(issues, content)
     THEN /\ result' = [call |-> "all", out |-> Raised("IndexError"), opened |-> TRUE, index |-> 0]
          /\ pc' = "done"
          /\ UNCHANGED <<fixes, idx>>
     ELSE /\ fixes' = AllFixes(issues, content)
          /\ idx' = 0
          /\ pc' = IF issues = <<>> THEN "done" ELSE "fixall"
          /\ UNCHANGED result
  /\ UNCHANGED <<content, issues, prev, applied>>

\* one turn of the loop over fixes: "Apply fix for issue i? (y/n/q to quit)"
ConfirmAll(answer) ==
  /\ pc = "fixall"
  /\ IF answer = "y"
     THEN DoApply(fixes[idx + 1], "fix_all", issues[idx + 1])
     ELSE UNCHANGED <<content, prev, applied>>
  /\ idx' = idx + 1
  /\ pc' = IF answer = "q" \/ idx + 1 = Len(fixes)
              \/ (answer = "y" /\ applied'.status = "IndexError")
           THEN "done" ELSE "fixall"
  /\ UNCHANGED <<issues, result, fixes>>

\* a caller of the class hands a fix record to apply_fix
ApplyFixCall(fix) ==
  /\ pc = "start"
  /\ DoApply(fix, "call", NoIssue)
  /\ pc' = "done"
  /\ UNCHANGED <<issues, result, fixes, idx>>

\* the file changes on disk between the scan and the fix: it loses its last
\* line, or one of its lines is overwritten
DropLastLine(c) ==
  LET ls == readlines(c) IN writelines(SubSeq(ls, 1, Len(ls) - 1))

OverwriteLine(c, k, line) ==
  LET ls == readlines(c) IN writelines([ls EXCEPT ![k] = line \o <<NL>>])

ExternalEdit ==
  /\ pc = "analyzed"
  /\ content # <<>>
  /\ \/ content' = DropLastLine(content)
     \/ \E k \in 1..Len(readlines(content)), line \in Pool :
          /\ content' = OverwriteLine(content, k, line)
          /\ content' # content
  /\ pc' = "edited"
  /\ UNCHANGED <<issues, result, fixes, idx, prev, applied>>

Next ==
  \/ AnalyzeProject
  \/ \E i \in -1..(Len(issues) + 1) : SuggestOne(i)
  \/ \E answer \in {"y", "n"} : ConfirmOne(answer)
  \/ SuggestAll
  \/ \E answer \in {"y", "n", "q"} : ConfirmAll(answer)
  \/ \E fix \in ArbitraryFixes : ApplyFixCall(fix)

Spec == Init /\ [][Next]_vars

\* the same runs, with the file edited by someone else after the scan
NextStale == Next \/ ExternalEdit

SpecStale == Init /\ [][NextStale]_vars

(***************************************************************************)
(* What the claims speak of.                                               *)
(***************************************************************************)
Applied == applied.status = "Applied fix"

\* the physical lines a replacement is written as
ReplacementLines(fix) == readlines(fix.replacement \o <<NL>>)

\* the issue the single fix of --fix was asked for
Asked == issues[result.index + 1]

IndexInRange == 0 <= result.index /\ result.index < Len(issues)

\* the same issue: same rule (type and suggestion) at the same line
SameIssue(i, j) == i.line = j.line /\ i.type = j.type /\ i.suggestion = j.suggestion

\* the detection pattern of the rule that made the issue
RuleOf(issue) ==
  CHOOSE r \in 1..Len(deprecated_apis) : issue.suggestion[2] = deprecated_apis[r].replacement

RulePattern(issue) ==
  IF issue.type = "deprecated_api" THEN deprecated_apis[RuleOf(issue)].pattern
  ELSE IF issue.type = "sendable_conformance" THEN class_pattern
  ELSE IF issue.message = VStackMessage THEN vstack_pattern
  ELSE text_interp_pattern

\* the line the issue was recorded at is gone, or no longer matches its rule
Stale(issue, c) ==
  \/ issue.line > Len(readlines(c))
  \/ ~re_search(RulePattern(issue), readlines(c)[issue.line]).ok

Select(iss, type) == SelectSeq(iss, LAMBDA i : i.type = type)

\* the deprecated-API issues recorded for rule r at line n
Reported(r, n) ==
  {j \in 1..Len(issues) : /\ issues[j].type = "deprecated_api"
                          /\ issues[j].line = n
                          /\ RuleOf(issues[j]) = r}

\* the blanks a line starts with, and the line after them
Blanks(line) == SubSeq(line, 1, SetMin({k \in 0..Len(line) : k = Len(line) \/ line[k + 1] \notin {SP, INDENT}}))

\* the two lines C5 expects for a line W VStack(spacing: V) ...
ExpectedVStack(line) ==
  LET W == Blanks(line)
      V == line[Len(W) + 6]
  IN << W \o <<"VStack", SP, "{", NL>>,
        W \o <<INDENT, "Spacer", "(", ")", ".", "frame", "(", "height", ":", SP, V, ")", NL>> >>

\* line is W VStack(spacing: V) ... with a numeric V
IsVStackIdiom(line) ==
  /\ Len(line) >= Len(Blanks(line)) + 7
  /\ SubSeq(line, Len(Blanks(line)) + 1, Len(Blanks(line)) + 5) = <<"VStack", "(", "spacing", ":", SP>>
  /\ IsDigit(line[Len(Blanks(line)) + 6])
  /\ line[Len(Blanks(line)) + 7] = ")"

(***************************************************************************)
(* C1: apply_fix with a replacement of K physical lines at line N of an    *)
(* M-line file, 1 <= N <= M, yields M+K-1 lines: lines 1..N-1 unchanged,   *)
(* the K new lines at N..N+K-1, the old lines N+1..M after them unchanged. *)
(***************************************************************************)
C1_ApplyChangesOnlyTheTargetedLine ==
  Applied =>
    LET old == readlines(prev)
        new == readlines(content)
        N == applied.fix.line
        M == Len(old)
        repl == ReplacementLines(applied.fix)
        K == Cardinality({p \in 1..Len(applied.fix.replacement) : applied.fix.replacement[p] = NL}) + 1
    IN /\ 1 <= N /\ N <= M
       /\ Len(repl) = K
       /\ Len(new) = M + K - 1
       /\ \A i \in 1..(N - 1) : new[i] = old[i]
       /\ \A j \in 1..K : new[N + j - 1] = repl[j]
       /\ \A i \in (N + 1)..M : new[i + K - 1] = old[i]

\* a three-line replacement written at line 1 of a two-line file
C1_Witness ==
  /\ Applied
  /\ applied.fix.line = 1
  /\ Len(readlines(prev)) = 2
  /\ Len(ReplacementLines(applied.fix)) = 3
  /\ Len(readlines(content)) = 4

(***************************************************************************)
(* C2: apply_fix with a line number past the end of the file leaves the    *)
(* file as it was, and a fix that has a replacement fails (IndexError)     *)
(* instead of writing the replacement at another line.                     *)
(***************************************************************************)
C2_OutOfRangeApplyFailsAndWritesNothing ==
  (applied.status # "none" /\ applied.fix.line > Len(readlines(prev))) =>
    /\ content = prev
    /\ applied.fix.has => applied.status = "IndexError"

C2_Witness ==
  /\ applied.fix.has
  /\ prev # <<>>
  /\ applied.fix.line = Len(readlines(prev)) + 1
  /\ applied.status = "IndexError"
  /\ content = prev

(***************************************************************************)
(* C3: after the fix of a buildExpression or deprecated-API issue is       *)
(* applied, detection on the new content does not report the same issue    *)
(* (same rule) at the same line again.                                     *)
(***************************************************************************)
C3_AppliedFixIsNotReportedAgain ==
  (Applied /\ applied.via = "fix" /\ applied.issue.type \in {"buildExpression", "deprecated_api"}) =>
    \A j \in 1..Len(analyze_file(content)) : ~SameIssue(analyze_file(content)[j], applied.issue)

(***************************************************************************)
(* C4: generate_fix for an issue of an earlier scan never raises, and      *)
(* yields a fix without replacement when the line at the recorded number   *)
(* is gone or no longer matches the rule that made the issue.              *)
(***************************************************************************)
C4_StaleLineYieldsManualFix ==
  (result.call = "one" /\ IndexInRange /\ applied = NoApply) =>
    /\ result.out.kind = "fix"
    /\ Stale(Asked, content) => ~result.out.has

(***************************************************************************)
(* C5: for a line W VStack(spacing: V) with numeric V the replacement is   *)
(* the two lines W "VStack {" and W + four spaces "Spacer().frame(height:  *)
(* V)", and applying it puts exactly these two lines at the issue's line.  *)
(***************************************************************************)
C5_VStackFixKeepsTheIndentation ==
  /\ (pc = "confirm" /\ Asked.message = VStackMessage
      /\ IsVStackIdiom(readlines(content)[Asked.line])) =>
       /\ result.out.has
       /\ ReplacementLines(result.out) = ExpectedVStack(readlines(content)[Asked.line])
  /\ (Applied /\ applied.via = "fix" /\ applied.issue.message = VStackMessage
      /\ IsVStackIdiom(readlines(prev)[applied.fix.line])) =>
       /\ Len(readlines(content)) = Len(readlines(prev)) + 1
       /\ SubSeq(readlines(content), applied.fix.line, applied.fix.line + 1)
          = ExpectedVStack(readlines(prev)[applied.fix.line])

(***************************************************************************)
(* C6: suggest_fixes(i) with i < 0 or i >= len(issues) returns the         *)
(* invalid-index value, opens no file and leaves the issue list as the     *)
(* scan made it; with i in range it returns the fix of issues[i].          *)
(***************************************************************************)
C6_InvalidIndexIsReported ==
  result.call = "one" =>
    IF IndexInRange
    THEN pc = "confirm" =>
           /\ result.out = generate_fix(Asked, content)
           /\ result.out.line = Asked.line
    ELSE /\ result.out = InvalidIndex
         /\ ~result.opened
         /\ pc = "done"
         /\ applied = NoApply
         /\ issues = analyze_file(content)

\* the index equal to the issue count, of a file that has issues
C6_Witness ==
  /\ result.call = "one"
  /\ issues # <<>>
  /\ result.index = Len(issues)
  /\ result.out = InvalidIndex

(***************************************************************************)
(* C7 as claimed: detection reports at most one deprecated-API issue per   *)
(* line, the one of the earliest-listed pattern that matches the line.     *)
(***************************************************************************)
C7_FirstMatchingPatternWinsPerLine ==
  pc = "analyzed" =>
    \A n \in 1..Len(readlines(content)) :
      /\ Cardinality(UNION {Reported(r, n) : r \in 1..Len(deprecated_apis)}) <= 1
      /\ \A r \in 1..Len(deprecated_apis) :
           Reported(r, n) # {} =>
             \A q \in 1..(r - 1) : ~re_search(deprecated_apis[q].pattern, readlines(content)[n]).ok

(***************************************************************************)
(* C7 amended: detection reports, for every line and every pattern of the  *)
(* table, one deprecated-API issue per non-overlapping match of the        *)
(* pattern in the line, the issues listed pattern by pattern in table      *)
(* order.                                                                  *)
(***************************************************************************)
C7_EveryMatchOfEveryPatternIsReported ==
  pc = "analyzed" =>
    /\ \A n \in 1..Len(readlines(content)), r \in 1..Len(deprecated_apis) :
         Cardinality(Reported(r, n))
           = Len(re_finditer(deprecated_apis[r].pattern, readlines(content)[n]))
    /\ \A j, k \in 1..Len(Select(issues, "deprecated_api")) :
         j < k => RuleOf(Select(issues, "deprecated_api")[j])
                    <= RuleOf(Select(issues, "deprecated_api")[k])

\* a line with three deprecated-API issues: two patterns match it, one twice
C7_Witness ==
  /\ pc = "analyzed"
  /\ \E n \in 1..Len(readlines(content)) :
       /\ Cardinality(Reported(1, n)) = 1
       /\ Cardinality(Reported(5, n)) = 2

(***************************************************************************)
(* C8: for an issue of a conditional in a Text interpolation the           *)
(* replacement is two lines: the ternary bound to computed_value, then the *)
(* original line with computed_value in the interpolation and no ternary.  *)
(***************************************************************************)
C8_TernaryIsExtracted ==
  (pc = "confirm" /\ Asked.message = TextMessage) =>
    /\ result.out.has
    /\ Len(ReplacementLines(result.out)) = 2
    /\ str_in(<<"let", SP, "computed_value", SP, "=", SP>>, ReplacementLines(result.out)[1])
    /\ str_in(<<"?">>, ReplacementLines(result.out)[1])
    /\ str_in(<<BS, "(", "computed_value", ")">>, ReplacementLines(result.out)[2])
    /\ ~str_in(<<"?">>, ReplacementLines(result.out)[2])

(***************************************************************************)
(* C9: in the fix-all flow, when a fix is applied the file line at         *)
(* fix.line still holds the content recorded as the fix's original.        *)
(***************************************************************************)
C9_FixAllAppliesToTheLineTheFixWasMadeFor ==
  (applied.via = "fix_all" /\ applied.fix.has) =>
    /\ applied.fix.line <= Len(readlines(prev))
    /\ str_strip(readlines(prev)[applied.fix.line]) = applied.fix.original

(***************************************************************************)
(* C10: a scan reports no concurrency-safety issue or one per class        *)
(* declaration match, and once a concurrency-safety fix is applied a scan  *)
(* of the file reports none, whatever the other classes of the file.       *)
(***************************************************************************)
C10_SendableCheckIsWholeFile ==
  /\ pc = "analyzed" =>
       Len(Select(issues, "sendable_conformance")) \in {0, Len(re_finditer(class_pattern, content))}
  /\ (Applied /\ applied.issue.type = "sendable_conformance") =>
       check_sendable_conformance(content) = <<>>

\* one of two flagged classes fixed: the other one has no annotation
C10_Witness ==
  /\ Applied
  /\ applied.via = "fix"
  /\ applied.issue.type = "sendable_conformance"
  /\ Len(Select(issues, "sendable_conformance")) = 2
  /\ Len(re_finditer(class_pattern, content)) = 2
  /\ \E n \in 1..Len(readlines(content)) :
       /\ re_search(class_pattern, readlines(content)[n]).ok
       /\ ~Annotated(readlines(content)[n])

====
